---- MODULE Spec2Model ----
(***************************************************************************)
(* State-machine model of src/src/connection-manager.py: the class         *)
(* ConnectionManager, its header mapping (a Python dict held by            *)
(* reference), its settings, its requests.Session and the four raw_*       *)
(* request methods.  Strings are TLA+ strings; dict objects live in a heap *)
(* so that two names for the same dict are visible as such.                *)
(***************************************************************************)
EXTENDS Naturals, Sequences, FiniteSets, TLC

(***************************************************************************)
(* Text helpers (Python str operations used by urljoin and by "%s" % e).   *)
(***************************************************************************)
\* F applied to the value of v, with v evaluated once (a local variable)
Bind(v, F(_)) == CHOOSE y \in {F(x) : x \in {v}} : TRUE

Char(s, i) == SubSeq(s, i, i)

\* s[i:] with a 1-based i
From(s, i) == SubSeq(s, i, Len(s))

\* the least element of a non-empty set of numbers
Least(S) == CHOOSE i \in S : \A j \in S : i <= j

\* s.find(c) for a one-character c, 1-based; 0 when c does not occur
Find(s, c) ==
  Bind({i \in 1..Len(s) : Char(s, i) = c},
       LAMBDA hits : IF hits = {} THEN 0 ELSE Least(hits))

\* sub in s
Contains(s, sub) ==
  \E i \in 1..(Len(s) + 1) :
    i + Len(sub) - 1 <= Len(s) /\ SubSeq(s, i, i + Len(sub) - 1) = sub

\* s.split("/")
RECURSIVE SplitSlash(_)
SplitSlash(s) ==
  Bind(Find(s, "/"),
       LAMBDA i : IF i = 0 THEN <<s>>
                  ELSE Bind(From(s, i + 1),
                            LAMBDA rest : <<SubSeq(s, 1, i - 1)>> \o SplitSlash(rest)))

\* "/".join(parts)
RECURSIVE JoinSlash(_)
JoinSlash(parts) ==
  IF Len(parts) = 0 THEN ""
  ELSE IF Len(parts) = 1 THEN parts[1]
  ELSE Bind(Tail(parts), LAMBDA rest : parts[1] \o "/" \o JoinSlash(rest))

(***************************************************************************)
(* urllib.parse.urljoin, imported at line 4 and called by every raw_*      *)
(* method.  urlsplit / urlunsplit / urljoin follow CPython's urllib.parse  *)
(* for URLs without ";params" and with lower-case schemes.                 *)
(***************************************************************************)
Letters ==
  {"a","b","c","d","e","f","g","h","i","j","k","l","m",
   "n","o","p","q","r","s","t","u","v","w","x","y","z"}

SchemeChars == Letters \cup {"0","1","2","3","4","5","6","7","8","9","+","-","."}

\* urllib.parse.uses_relative and uses_netloc (the schemes the model uses)
UsesRelative == {"", "http", "https", "ftp", "file"}

UsesNetloc == {"", "http", "https", "ftp", "file"}

\* the first index >= 3 of one of "/?#", or Len+1 (urllib.parse._splitnetloc)
NetlocEnd(url) ==
  Bind({i \in 3..Len(url) : Char(url, i) \in {"/", "?", "#"}},
       LAMBDA hits : IF hits = {} THEN Len(url) + 1 ELSE Least(hits))

\* url.split(sep, 1) for a one-character sep: <<before, after>>, and
\* <<url, "">> when sep does not occur
SplitOnce(url, sep) ==
  Bind(Find(url, sep),
       LAMBDA i : IF i = 0 THEN <<url, "">>
                  ELSE <<SubSeq(url, 1, i - 1), From(url, i + 1)>>)

\* the scheme of url and the rest, <<default, url>> when it has none
SplitScheme(url, default) ==
  Bind(Find(url, ":"),
       LAMBDA c : IF /\ c > 1
                     /\ Char(url, 1) \in Letters
                     /\ \A j \in 1..(c - 1) : Char(url, j) \in SchemeChars
                  THEN <<SubSeq(url, 1, c - 1), From(url, c + 1)>>
                  ELSE <<default, url>>)

\* the netloc of a URL without its scheme, and the rest
SplitNetloc(rest) ==
  IF SubSeq(rest, 1, 2) = "//"
  THEN Bind(NetlocEnd(rest),
            LAMBDA ne : <<SubSeq(rest, 3, ne - 1), From(rest, ne)>>)
  ELSE <<"", rest>>

\* urllib.parse.urlsplit(url, scheme=default)
urlsplit(url, default) ==
  Bind(SplitScheme(url, default), LAMBDA s :
  Bind(SplitNetloc(s[2]), LAMBDA n :
  Bind(SplitOnce(n[2], "#"), LAMBDA f :
  Bind(SplitOnce(f[1], "?"), LAMBDA q :
    [scheme |-> s[1], netloc |-> n[1], path |-> q[1],
     query |-> q[2], fragment |-> f[2]]))))

\* urllib.parse.urlunsplit
urlunsplit(p) ==
  Bind(IF p.netloc # "" \/
          (p.scheme # "" /\ p.scheme \in UsesNetloc /\ SubSeq(p.path, 1, 2) # "//")
       THEN "//" \o p.netloc \o
            (IF p.path # "" /\ Char(p.path, 1) # "/" THEN "/" \o p.path ELSE p.path)
       ELSE p.path, LAMBDA u1 :
  Bind(IF p.scheme # "" THEN p.scheme \o ":" \o u1 ELSE u1, LAMBDA u2 :
  Bind(IF p.query # "" THEN u2 \o "?" \o p.query ELSE u2, LAMBDA u3 :
    IF p.fragment # "" THEN u3 \o "#" \o p.fragment ELSE u3)))

\* segments[1:-1] = filter(None, segments[1:-1])
DropInnerEmpty(segs) ==
  IF Len(segs) <= 2 THEN segs
  ELSE <<segs[1]>> \o
       SelectSeq(SubSeq(segs, 2, Len(segs) - 1), LAMBDA x : x # "") \o
       <<segs[Len(segs)]>>

\* one turn of the loop over segments resolving "." and ".."
ResolveStep(acc, seg) ==
  IF seg = ".." THEN (IF Len(acc) = 0 THEN acc ELSE SubSeq(acc, 1, Len(acc) - 1))
  ELSE IF seg = "." THEN acc
  ELSE Append(acc, seg)

\* the loop over segments resolving "." and ".."
RECURSIVE ResolveDots(_, _)
ResolveDots(segs, acc) ==
  IF Len(segs) = 0 THEN acc
  ELSE Bind(ResolveStep(acc, Head(segs)), LAMBDA acc1 :
       Bind(Tail(segs), LAMBDA rest : ResolveDots(rest, acc1)))

\* the path of urljoin's result: base path bpath, reference path path
ResolvePath(bpath, path) ==
  Bind(SplitSlash(bpath), LAMBDA bp0 :
  Bind(IF bp0[Len(bp0)] # "" THEN SubSeq(bp0, 1, Len(bp0) - 1) ELSE bp0,
       LAMBDA base_parts :
  Bind(IF Char(path, 1) = "/" THEN SplitSlash(path)
       ELSE DropInnerEmpty(base_parts \o SplitSlash(path)), LAMBDA segments :
  Bind(ResolveDots(segments, <<>>), LAMBDA r0 :
  Bind(JoinSlash(IF segments[Len(segments)] \in {".", ".."}
                 THEN Append(r0, "") ELSE r0), LAMBDA joined :
    IF joined = "" THEN "/" ELSE joined)))))

\* the path appended to the base whether or not it starts with "/"
urljoin_append(base, url) ==
  base \o (IF Char(url, 1) = "/" THEN From(url, 2) ELSE url)

\* urllib.parse.urljoin(base, url)
urljoin(base, url) ==
  IF base = "" THEN url
  ELSE IF url = "" THEN base
  ELSE
    Bind(urlsplit(base, ""), LAMBDA b :
    Bind(urlsplit(url, b.scheme), LAMBDA u :
      IF u.scheme # b.scheme \/ u.scheme \notin UsesRelative THEN url
      ELSE IF u.scheme \in UsesNetloc /\ u.netloc # "" THEN urlunsplit(u)
      ELSE
        Bind(IF u.scheme \in UsesNetloc THEN b.netloc ELSE u.netloc, LAMBDA netloc :
          IF u.path = ""
          THEN urlunsplit([u EXCEPT !.netloc = netloc, !.path = b.path,
                                    !.query = IF u.query = "" THEN b.query
                                              ELSE u.query])
          ELSE Bind(ResolvePath(b.path, u.path), LAMBDA path :
                 urlunsplit([u EXCEPT !.netloc = netloc, !.path = path])))))

(***************************************************************************)
(* Bounds and input sets.                                                  *)
(***************************************************************************)
\* how many dict objects besides the default-argument dict can be alive
MaxObjs == 2

Managers == {"m1", "m2"}

Keys == {"X-Token", "Accept"}

\* the values a caller gives each header
ValuesOf(key) == IF key = "Accept" THEN {"json"} ELSE {"abc", "xyz"}

BaseUrls == {"http://host/api/", "https://example.test"}

Paths == {"/foo", "/bar", "foo", "/v1/items"}

Timeouts == {60, 5}

Verifies == {TRUE, FALSE}

\* **kwargs of a raw_* call: (name, value) pairs in call order
Kwargs == {<<>>, << <<"limit", 10>> >>}

\* data arguments, written as Python literals; "None" is also the default
DataArgs == {"None", "''", "{}", "{'id': '7'}"}

\* what the transport does with one request: a response or an exception
Outcomes ==
  {[kind |-> "response", status |-> 200, cause |-> ""],
   [kind |-> "response", status |-> 404, cause |-> ""],
   [kind |-> "response", status |-> 500, cause |-> ""],
   [kind |-> "raise", status |-> 0, cause |-> "timed out"]}

(***************************************************************************)
(* Python values.                                                          *)
(***************************************************************************)
\* Python's None, as returned by dict.get for a missing key
None == "<None>"

\* marks a key a dict does not hold
Missing == "<missing>"

\* a dict is a function on Keys: Missing where the key is not in the dict
EmptyDict == [k \in Keys |-> Missing]

\* the dict literals a caller passes as headers
HeaderLiterals == {EmptyDict, [EmptyDict EXCEPT !["Accept"] = "json"]}

\* d.get(key)
dict_get(d, key) == IF d[key] = Missing THEN None ELSE d[key]

\* d[key] = value
dict_setitem(d, key, value) == [d EXCEPT ![key] = value]

\* d.pop(key) and d.pop(key, default): the dict afterwards and the
\* exception raised; without a default a missing key raises KeyError
dict_pop(d, key, hasDefault) ==
  IF d[key] = Missing /\ ~hasDefault
  THEN [d |-> d, exc |-> "KeyError"]
  ELSE [d |-> [d EXCEPT ![key] = Missing], exc |-> ""]

\* key in d
dict_contains(d, key) == d[key] # Missing

\* bool(data) for the data literals
Truthy(data) == data \notin {"None", "''", "{}", "[]", "0", "False"}

(***************************************************************************)
(* The heap of dict objects.  Object DefaultObj is the dict created once,  *)
(* when "def __init__(..., headers={}, ...)" is evaluated.                 *)
(***************************************************************************)
DefaultObj == 0

ObjIds == 0..MaxObjs

NoRef == MaxObjs + 1

\* the slot of a dict object that does not exist
Free == [k \in Keys |-> "<free>"]

VARIABLES
  mgr,    \* each ConnectionManager object: lifecycle, fields, session
  heap,   \* dict objects by identity
  held,   \* a dict reference the caller keeps (from the headers getter)
  wire,   \* the calls the last operation made on the session, with outcomes
  last    \* the last operation: name, receiver, arguments, result

vars == <<mgr, heap, held, wire, last>>

\* an object that does not exist (before construction, after destruction)
NoManager ==
  [state |-> "unborn", base_url |-> "", headers |-> NoRef, timeout |-> 0,
   verify |-> FALSE, has_s |-> FALSE, session |-> "none", closes |-> 0,
   proxies |-> "None"]

\* no response: the operation was no request, or the request raised
NoResponse == [kind |-> "none", status |-> 0, cause |-> ""]

\* the record of an operation that is no request: key is its key argument,
\* arg another argument, had whether the receiver's mapping held the key
\* (for clean_headers: any key) when the operation began
Op(op, m, key, arg, had, exc) ==
  [op |-> op, m |-> m, key |-> key, arg |-> arg, had |-> had, exc |-> exc,
   path |-> "", kwargs |-> <<>>, resp |-> NoResponse]

\* the record of a request: its path, its data argument as given, its
\* keyword arguments, and what it returned or raised
ReqOp(op, m, path, arg, kwargs, resp, exc) ==
  [op |-> op, m |-> m, key |-> "", arg |-> arg, had |-> FALSE, exc |-> exc,
   path |-> path, kwargs |-> kwargs, resp |-> resp]

NoOp == Op("", "", "", "", FALSE, "")

\* the dict objects something still refers to; the default-argument dict
\* is referred to by the function object
Referenced(mg, hd) ==
  {DefaultObj} \cup {mg[m].headers : m \in Managers} \cup {hd}

\* the state an operation leaves: reference counting frees every dict
\* nothing refers to any more
Settle(mg, h, hd) ==
  [mgr  |-> mg,
   held |-> hd,
   heap |-> [o \in ObjIds |-> IF o \in Referenced(mg, hd) THEN h[o] ELSE Free]]

\* the identity of the dict created for manager m's headers attribute: a
\* slot that is free once m has let go of the dict it held (NoRef if none)
NewObj(m) ==
  LET st   == Settle([mgr EXCEPT ![m].headers = NoRef], heap, held)
      free == {o \in ObjIds : st.heap[o] = Free}
  IN  IF free = {} THEN NoRef ELSE Least(free)

\* a dict can be created for manager m
HasFree(m) == NewObj(m) # NoRef

Alive(m) == mgr[m].state = "alive"

(***************************************************************************)
(* Property accessors (lines 57-107).                                      *)
(***************************************************************************)
\* the headers getter: the dict object itself
headers(m) == mgr[m].headers

\* the contents of the manager's mapping
Headers(m) == heap[headers(m)]

\* param_headers(key)
param_headers(m, key) == dict_get(Headers(m), key)

\* exist_param_headers(key)
exist_param_headers(m, key) == param_headers(m, key) # None

\* the base_url, timeout and verify getters
base_url(m) == mgr[m].base_url

timeout(m) == mgr[m].timeout

verify(m) == mgr[m].verify

(***************************************************************************)
(* Construction and destruction (lines 27-55).                             *)
(***************************************************************************)
\* the proxies arguments: none, a mapping, and a string (which is truthy
\* and which dict.update rejects)
ProxyArgs == {"None", "{'http': 'http://proxy:8080'}", "'http://proxy:8080'"}

\* self._s.proxies.update(proxies) raises for this argument
UpdateRaises(proxies) == proxies = "'http://proxy:8080'"

\* __init__(base_url, headers, timeout, verify, proxies).  hsrc says where
\* the headers argument comes from: "default" (omitted: the default-argument
\* dict), "literal" (a new dict lit) or "held" (a dict the caller holds).
\* sessionOk says whether requests.Session() returns.
Construct(m, url, hsrc, lit, tmo, vfy, proxies, sessionOk) ==
  /\ mgr[m].state = "unborn"
  /\ hsrc \in {"default", "literal", "held"}
  /\ hsrc = "literal" => HasFree(m)
  /\ hsrc = "held" => held # NoRef
  /\ LET ref == IF hsrc = "default" THEN DefaultObj
                ELSE IF hsrc = "literal" THEN NewObj(m) ELSE held
         h1  == IF hsrc = "literal" THEN [heap EXCEPT ![NewObj(m)] = lit] ELSE heap
         fields == [NoManager EXCEPT !.base_url = url, !.headers = ref,
                                     !.timeout = tmo, !.verify = vfy]
         obj == IF ~sessionOk
                THEN [fields EXCEPT !.state = "failed"]
                ELSE IF proxies # "None" /\ UpdateRaises(proxies)
                THEN [fields EXCEPT !.state = "failed", !.has_s = TRUE,
                                    !.session = "open", !.proxies = "{}"]
                ELSE [fields EXCEPT !.state = "alive", !.has_s = TRUE,
                                    !.session = "open",
                                    !.proxies = IF proxies = "None" THEN "{}"
                                                ELSE proxies]
         st  == Settle([mgr EXCEPT ![m] = obj], h1, held)
     IN  /\ mgr' = st.mgr
         /\ heap' = st.heap
         /\ held' = st.held
         /\ last' = Op("__init__", m, "", hsrc, FALSE,
                       IF obj.state = "failed" THEN "init raised" ELSE "")
  /\ wire' = <<>>

\* __del__ with the hasattr guard removed: self._s.close() on an object
\* without the attribute raises AttributeError
FinalizeNoGuard(obj) ==
  IF obj.has_s
  THEN [obj |-> [obj EXCEPT !.session = "closed", !.closes = @ + 1], exc |-> ""]
  ELSE [obj |-> obj, exc |-> "AttributeError"]

\* the body of __del__: close the session if the attribute _s exists;
\* the object afterwards and the exception raised
Finalize(obj) ==
  IF obj.has_s
  THEN [obj |-> [obj EXCEPT !.session = "closed", !.closes = @ + 1], exc |-> ""]
  ELSE [obj |-> obj, exc |-> ""]

\* the object is collected: __del__ runs and its references are dropped
Destroy(m) ==
  /\ mgr[m].state \in {"alive", "failed"}
  /\ LET fin  == Finalize(mgr[m])
         gone == [fin.obj EXCEPT !.state = "destroyed", !.headers = NoRef]
         st   == Settle([mgr EXCEPT ![m] = gone], heap, held)
     IN  /\ mgr' = st.mgr
         /\ heap' = st.heap
         /\ held' = st.held
         /\ last' = Op("__del__", m, "", "", FALSE, fin.exc)
  /\ wire' = <<>>

(***************************************************************************)
(* Setters (lines 66-107).                                                 *)
(***************************************************************************)
SetBaseUrl(m, value) ==
  /\ Alive(m)
  /\ mgr' = [mgr EXCEPT ![m].base_url = value]
  /\ last' = Op("base_url.setter", m, "", "", FALSE, "")
  /\ wire' = <<>>
  /\ UNCHANGED <<heap, held>>

SetTimeout(m, value) ==
  /\ Alive(m)
  /\ mgr' = [mgr EXCEPT ![m].timeout = value]
  /\ last' = Op("timeout.setter", m, "", "", FALSE, "")
  /\ wire' = <<>>
  /\ UNCHANGED <<heap, held>>

SetVerify(m, value) ==
  /\ Alive(m)
  /\ mgr' = [mgr EXCEPT ![m].verify = value]
  /\ last' = Op("verify.setter", m, "", "", FALSE, "")
  /\ wire' = <<>>
  /\ UNCHANGED <<heap, held>>

\* m.headers = value, value a new dict literal or the dict the caller holds
SetHeaders(m, hsrc, lit) ==
  /\ Alive(m)
  /\ hsrc \in {"literal", "held"}
  /\ hsrc = "literal" => HasFree(m)
  /\ hsrc = "held" => held # NoRef
  /\ LET ref == IF hsrc = "literal" THEN NewObj(m) ELSE held
         h1  == IF hsrc = "literal" THEN [heap EXCEPT ![NewObj(m)] = lit] ELSE heap
         st  == Settle([mgr EXCEPT ![m].headers = ref], h1, held)
     IN  /\ mgr' = st.mgr
         /\ heap' = st.heap
         /\ held' = st.held
  /\ last' = Op("headers.setter", m, "", hsrc, FALSE, "")
  /\ wire' = <<>>

\* h = m.headers: the caller keeps the dict the getter returns
GetHeaders(m) ==
  /\ Alive(m)
  /\ LET st == Settle(mgr, heap, headers(m))
     IN  /\ mgr' = st.mgr
         /\ heap' = st.heap
         /\ held' = st.held
  /\ last' = Op("headers.getter", m, "", "", FALSE, "")
  /\ wire' = <<>>

(***************************************************************************)
(* Header operations (lines 109-149).                                      *)
(***************************************************************************)
\* clean_headers assigning to another attribute: the mapping is untouched
CleanHeadersNoEffect(m) ==
  /\ Alive(m)
  /\ last' = Op("clean_headers", m, "", "", Headers(m) # EmptyDict, "")
  /\ wire' = <<>>
  /\ UNCHANGED <<mgr, heap, held>>

\* clean_headers: self.headers = {} binds the manager to a new dict
CleanHeaders(m) ==
  /\ Alive(m)
  /\ HasFree(m)
  /\ LET st == Settle([mgr EXCEPT ![m].headers = NewObj(m)],
                       [heap EXCEPT ![NewObj(m)] = EmptyDict], held)
     IN  /\ mgr' = st.mgr
         /\ heap' = st.heap
         /\ held' = st.held
  /\ last' = Op("clean_headers", m, "", "", Headers(m) # EmptyDict, "")
  /\ wire' = <<>>

\* add_param_headers written as self.headers = {key: value}
AddParamHeadersRebind(m, key, value) ==
  /\ Alive(m)
  /\ HasFree(m)
  /\ LET st == Settle([mgr EXCEPT ![m].headers = NewObj(m)],
                       [heap EXCEPT ![NewObj(m)] = dict_setitem(EmptyDict, key, value)],
                       held)
     IN  /\ mgr' = st.mgr
         /\ heap' = st.heap
         /\ held' = st.held
  /\ last' = Op("add_param_headers", m, key, value,
                dict_contains(Headers(m), key), "")
  /\ wire' = <<>>

\* add_param_headers: self.headers[key] = value
AddParamHeaders(m, key, value) ==
  /\ Alive(m)
  /\ heap' = [heap EXCEPT ![headers(m)] = dict_setitem(@, key, value)]
  /\ last' = Op("add_param_headers", m, key, value,
                dict_contains(Headers(m), key), "")
  /\ wire' = <<>>
  /\ UNCHANGED <<mgr, held>>

\* del_param_headers written as self.headers.pop(key), without a default
DelParamHeadersNoDefault(m, key) ==
  /\ Alive(m)
  /\ LET r == dict_pop(Headers(m), key, FALSE)
     IN  /\ heap' = [heap EXCEPT ![headers(m)] = r.d]
         /\ last' = Op("del_param_headers", m, key, "",
                       dict_contains(Headers(m), key), r.exc)
  /\ wire' = <<>>
  /\ UNCHANGED <<mgr, held>>

\* del_param_headers: self.headers.pop(key, None)
DelParamHeaders(m, key) ==
  /\ Alive(m)
  /\ LET r == dict_pop(Headers(m), key, TRUE)
     IN  /\ heap' = [heap EXCEPT ![headers(m)] = r.d]
         /\ last' = Op("del_param_headers", m, key, "",
                       dict_contains(Headers(m), key), r.exc)
  /\ wire' = <<>>
  /\ UNCHANGED <<mgr, held>>

(***************************************************************************)
(* Requests (lines 151-246).                                               *)
(***************************************************************************)
\* urlencode of the params, as requests appends them to the URL
RECURSIVE EncodeParams(_)
EncodeParams(params) ==
  IF Len(params) = 0 THEN ""
  ELSE Bind(params[1][1] \o "=" \o ToString(params[1][2]), LAMBDA one :
         IF Len(params) = 1 THEN one
         ELSE Bind(Tail(params), LAMBDA rest : one \o "&" \o EncodeParams(rest)))

\* the URL requests puts on the wire for (url, params): an empty path
\* becomes "/", the encoded params join the query
PrepareUrl(url, params) ==
  Bind(urlsplit(url, ""), LAMBDA p :
  Bind(EncodeParams(params), LAMBDA enc :
  Bind(IF p.query = "" THEN enc
       ELSE IF enc = "" THEN p.query ELSE p.query \o "&" \o enc, LAMBDA q :
    Bind([p EXCEPT !.path = IF p.path = "" THEN "/" ELSE p.path, !.query = q],
         LAMBDA parts : urlunsplit(parts)))))

\* the keyword arguments with timeout=60, the constructor's default
CallArgsDefaultTimeout(m, method, path, data, kwargs) ==
  [method |-> method, url |-> urljoin(base_url(m), path), params |-> kwargs,
   data |-> data, headers |-> Headers(m), timeout |-> 60,
   verify |-> verify(m)]

\* the keyword arguments every raw_* method gives the session, read from
\* the manager when the method is called
CallArgs(m, method, path, data, kwargs) ==
  [method |-> method, url |-> urljoin(base_url(m), path), params |-> kwargs,
   data |-> data, headers |-> Headers(m), timeout |-> timeout(m),
   verify |-> verify(m)]

\* "Can't connect to server (%s)" % e
ErrorMessage(cause) == "Can't connect to server (" \o cause \o ")"

\* what the session records of one call: the arguments, the URL put on
\* the wire, the state of the session, what the transport did
Sent(m, call, outcome) ==
  [call |-> call, target |-> PrepareUrl(call.url, call.params),
   session |-> mgr[m].session, outcome |-> outcome]

\* what the method returns (resp) or raises (exc) for a transport outcome
Result(op, m, path, arg, call, outcome) ==
  IF outcome.kind = "raise"
  THEN ReqOp(op, m, path, arg, call.params, NoResponse, ErrorMessage(outcome.cause))
  ELSE ReqOp(op, m, path, arg, call.params, outcome, "")

\* the call issued again after a failure (a retry)
SendWithRetry(m, op, path, arg, call, outcome) ==
  /\ Alive(m)
  /\ wire' = IF outcome.kind = "raise"
             THEN <<Sent(m, call, outcome), Sent(m, call, outcome)>>
             ELSE <<Sent(m, call, outcome)>>
  /\ last' = Result(op, m, path, arg, call, outcome)
  /\ UNCHANGED <<mgr, heap, held>>

\* try: return self._s.<method>(...) except Exception as e: raise Exception(...)
\* the session issues the call once; outcome is what the transport does
Send(m, op, path, arg, call, outcome) ==
  /\ Alive(m)
  /\ wire' = <<Sent(m, call, outcome)>>
  /\ last' = Result(op, m, path, arg, call, outcome)
  /\ UNCHANGED <<mgr, heap, held>>

\* a GET has no body
NoBody == "<no data>"

\* the data argument left out of a call
Omitted == "<omitted>"

raw_get(m, path, kwargs, outcome) ==
  Send(m, "raw_get", path, Omitted, CallArgs(m, "GET", path, NoBody, kwargs), outcome)

raw_post(m, path, data, kwargs, outcome) ==
  Send(m, "raw_post", path, data, CallArgs(m, "POST", path, data, kwargs), outcome)

raw_put(m, path, data, kwargs, outcome) ==
  Send(m, "raw_put", path, data, CallArgs(m, "PUT", path, data, kwargs), outcome)

\* data or dict()
DeleteBody(data) == IF Truthy(data) THEN data ELSE "{}"

\* raw_delete(path, data=None, **kwargs); arg is the data argument given,
\* or Omitted, for which data takes its default None
raw_delete(m, path, arg, kwargs, outcome) ==
  Send(m, "raw_delete", path, arg,
       CallArgs(m, "DELETE", path, DeleteBody(IF arg = Omitted THEN "None" ELSE arg),
                kwargs),
       outcome)

(***************************************************************************)
(* Specifications.                                                         *)
(***************************************************************************)
Init ==
  /\ mgr = [m \in Managers |-> NoManager]
  /\ heap = [o \in ObjIds |-> IF o = DefaultObj THEN EmptyDict ELSE Free]
  /\ held = NoRef
  /\ wire = <<>>
  /\ last = NoOp

OK200 == [kind |-> "response", status |-> 200, cause |-> ""]

TimedOut == [kind |-> "raise", status |-> 0, cause |-> "timed out"]

\* Header mappings and their sharing: two managers, every way of giving a
\* manager its mapping, every header operation.
Next ==
  \E m \in Managers :
    \/ \E hsrc \in {"default", "literal", "held"}, lit \in HeaderLiterals :
         Construct(m, "https://example.test", hsrc, lit, 60, TRUE, "None", TRUE)
    \/ \E hsrc \in {"literal", "held"}, lit \in HeaderLiterals : SetHeaders(m, hsrc, lit)
    \/ GetHeaders(m)
    \/ \E k \in Keys : \E v \in ValuesOf(k) : AddParamHeaders(m, k, v)
    \/ \E k \in Keys : DelParamHeaders(m, k)
    \/ CleanHeaders(m)

Spec == Init /\ [][Next]_vars

\* Requests: one manager, its settings and headers changed between calls,
\* the four request methods over paths, query arguments, bodies and
\* transport outcomes.
NextRequest ==
  \E m \in {"m1"} :
    \/ \E url \in BaseUrls : Construct(m, url, "default", EmptyDict, 60, TRUE, "None", TRUE)
    \/ \E url \in BaseUrls : SetBaseUrl(m, url)
    \/ \E t \in Timeouts : SetTimeout(m, t)
    \/ \E v \in Verifies : SetVerify(m, v)
    \/ \E v \in ValuesOf("X-Token") : AddParamHeaders(m, "X-Token", v)
    \/ DelParamHeaders(m, "X-Token")
    \/ CleanHeaders(m)
    \/ \E path \in Paths, kw \in Kwargs : raw_get(m, path, kw, OK200)
    \/ \E out \in Outcomes : raw_get(m, "/v1/items", <<>>, out)
    \/ \E data \in {"''", "{'id': '7'}"}, out \in Outcomes :
         raw_post(m, "items", data, <<>>, out)
    \/ \E data \in {"''", "{'id': '7'}"}, out \in Outcomes :
         raw_put(m, "/v1/items", data, << <<"limit", 10>> >>, out)
    \/ \E arg \in DataArgs \cup {Omitted}, out \in {OK200, TimedOut} :
         raw_delete(m, "/v1/items", arg, <<>>, out)

SpecRequest == Init /\ [][NextRequest]_vars

\* Lifecycle: construction that succeeds, that fails before the session
\* exists, that fails after; requests; destruction.
NextLifecycle ==
  \E m \in Managers :
    \/ \E proxies \in ProxyArgs, sessionOk \in BOOLEAN :
         Construct(m, "https://example.test", "default", EmptyDict, 60, TRUE,
                   proxies, sessionOk)
    \/ \E out \in {OK200, TimedOut} :
         raw_get(m, "/v1/items", <<>>, out)
    \/ AddParamHeaders(m, "X-Token", "abc")
    \/ CleanHeaders(m)
    \/ Destroy(m)

SpecLifecycle == Init /\ [][NextLifecycle]_vars

(***************************************************************************)
(* Properties.  A step is told by the record it leaves in last'.           *)
(***************************************************************************)
IsRequest(op) == op \in {"raw_get", "raw_post", "raw_put", "raw_delete"}

\* the step is add_param_headers or del_param_headers for key k, made on a
\* manager that holds the same dict object as manager m
WritesKeyOf(m, k) ==
  /\ last'.op \in {"add_param_headers", "del_param_headers"}
  /\ last'.key = k
  /\ headers(last'.m) = headers(m)

\* the step binds manager m to another dict object
Rebinds(m) ==
  last'.op \in {"clean_headers", "headers.setter"} /\ last'.m = m

\* C1, as claimed: when add_param_headers(k, v) has just returned on a
\* manager, every operation on that manager other than add_param_headers(k, _)
\* and del_param_headers(k) leaves param_headers(k) = v (assigning a whole
\* new mapping through the headers setter is left aside).
C1_ValueStaysUntilOverwrittenOrDeleted ==
  [][\A m \in Managers, k \in Keys :
       ( /\ last.op = "add_param_headers" /\ last.m = m /\ last.key = k
         /\ last'.m = m /\ last'.op # "headers.setter"
         /\ ~(last'.op \in {"add_param_headers", "del_param_headers"} /\ last'.key = k) )
       => param_headers(m, k)' = last.arg]_vars

\* C1, amended: add_param_headers(k, v) makes param_headers(k) return v, and
\* a value param_headers(k) returns stays until k is overwritten or deleted
\* through a manager holding the same dict object, or until the manager is
\* bound to another dict by clean_headers or the headers setter.
C1_ValueStaysUntilOverwrittenDeletedOrRebound ==
  [][\A m \in Managers, k \in Keys :
       /\ (last'.op = "add_param_headers" /\ last'.m = m /\ last'.key = k)
            => param_headers(m, k)' = last'.arg
       /\ (Alive(m) /\ exist_param_headers(m, k) /\ ~WritesKeyOf(m, k) /\ ~Rebinds(m))
            => param_headers(m, k)' = param_headers(m, k)]_vars

\* a value added earlier is still returned after a delete of another key
C1_Witness ==
  /\ last.op = "del_param_headers" /\ last.key = "Accept" /\ last.had
  /\ param_headers(last.m, "X-Token") = "xyz"

\* C2, as claimed: a manager constructed without a headers argument starts
\* with an empty mapping whatever earlier managers did, and add_param_headers
\* and del_param_headers on one manager change nothing in the mapping of
\* another manager that holds the mapping it was constructed with by default.
C2_OwnEmptyMappingPerInstance ==
  [][/\ (last'.op = "__init__" /\ last'.arg = "default" /\ last'.exc = "")
          => heap'[mgr'[last'.m].headers] = EmptyDict
     /\ \A m1 \in Managers : \A m2 \in Managers \ {m1} :
          ( /\ Alive(m1) /\ Alive(m2)
            /\ headers(m1) = DefaultObj /\ headers(m2) = DefaultObj
            /\ last'.op \in {"add_param_headers", "del_param_headers"}
            /\ last'.m = m1 )
          => Headers(m2)' = Headers(m2)]_vars

\* C8: del_param_headers(k) raises nothing whether or not k is present,
\* param_headers(k) is None right after it, and every other key keeps its
\* value.
C8_DelNeverRaisesAndRemovesOnlyKey ==
  [][\A m \in Managers, k \in Keys :
       (Alive(m) /\ last'.op = "del_param_headers" /\ last'.m = m /\ last'.key = k)
       => /\ last'.exc = ""
          /\ param_headers(m, k)' = None
          /\ \A k2 \in Keys \ {k} : param_headers(m, k2)' = param_headers(m, k2)]_vars

\* a key that was not present has been deleted, another key is present
C8_Witness ==
  /\ last.op = "del_param_headers" /\ ~last.had /\ last.exc = ""
  /\ \E k2 \in Keys \ {last.key} : exist_param_headers(last.m, k2)

\* C9: right after clean_headers() exist_param_headers(k) is false for every
\* key, and a key for which it is false stays so until k is added again: by
\* add_param_headers(k, _) on a manager holding the same dict object, or
\* with a mapping assigned through the headers setter.
C9_CleanLeavesNoKeyUntilAddedAgain ==
  [][\A m \in Managers :
       /\ (last'.op = "clean_headers" /\ last'.m = m)
            => \A k \in Keys : ~exist_param_headers(m, k)'
       /\ \A k \in Keys :
            (Alive(m) /\ ~exist_param_headers(m, k) /\ exist_param_headers(m, k)')
            => \/ (last'.op = "add_param_headers" /\ last'.key = k
                   /\ headers(last'.m) = headers(m))
               \/ (last'.op = "headers.setter" /\ last'.m = m)]_vars

\* clean_headers has emptied a mapping that held keys
C9_Witness ==
  /\ last.op = "clean_headers" /\ last.had
  /\ \A k \in Keys : ~exist_param_headers(last.m, k)

\* C10, as claimed: a live manager always has a mapping, and when
\* add_param_headers, del_param_headers or clean_headers has run on a manager
\* a reference to the manager's mapping obtained before it shows the
\* contents the manager's mapping has after it.
C10_SingleMappingMutatedInPlace ==
  [][\A m \in Managers :
       /\ Alive(m)' => (headers(m)' \in ObjIds /\ Headers(m)' # Free)
       /\ ( /\ Alive(m) /\ held = headers(m)
            /\ last'.op \in {"add_param_headers", "del_param_headers", "clean_headers"}
            /\ last'.m = m )
          => heap'[held'] = Headers(m)']_vars

C4_RequestCarriesCurrentSettings ==
  IsRequest(last.op) =>
    /\ Len(wire) >= 1
    /\ wire[1].call.headers = Headers(last.m)
    /\ wire[1].call.timeout = timeout(last.m)
    /\ wire[1].call.verify = verify(last.m)
    /\ wire[1].call.params = last.kwargs
    /\ (last.kwargs = <<>>) <=> ~Contains(wire[1].target, "?")
    /\ last.kwargs = << <<"limit", 10>> >> => Contains(wire[1].target, "?limit=10")
    /\ ( /\ last.op = "raw_get" /\ last.path = "/v1/items"
         /\ last.kwargs = << <<"limit", 10>> >>
         /\ base_url(last.m) = "https://example.test" )
       => wire[1].target = "https://example.test/v1/items?limit=10"

\* the scenario of the claim, after timeout and verify were changed
C4_Witness ==
  /\ last.op = "raw_get" /\ Len(wire) = 1
  /\ wire[1].target = "https://example.test/v1/items?limit=10"
  /\ wire[1].call.headers["X-Token"] = "abc"
  /\ wire[1].call.timeout = 5
  /\ wire[1].call.verify = FALSE

\* the URL a raw_get with this base_url and path was sent to is url
Resolves(base, path, url) ==
  (last.op = "raw_get" /\ base_url(last.m) = base /\ last.path = path)
  => (Len(wire) >= 1 /\ wire[1].call.url = url)

\* C5, as claimed: against http://host/api/, raw_get("/foo") resolves to
\* http://host/api/foo and raw_get("/bar") to http://host/bar.
C5_JoinAsClaimed ==
  /\ Resolves("http://host/api/", "/foo", "http://host/api/foo")
  /\ Resolves("http://host/api/", "/bar", "http://host/bar")

\* C5, amended: against http://host/api/, raw_get("/foo") resolves to
\* http://host/foo, raw_get("foo") to http://host/api/foo and
\* raw_get("/bar") to http://host/bar.
C5_JoinFollowsUrljoin ==
  /\ Resolves("http://host/api/", "/foo", "http://host/foo")
  /\ Resolves("http://host/api/", "foo", "http://host/api/foo")
  /\ Resolves("http://host/api/", "/bar", "http://host/bar")
  /\ Resolves("https://example.test", "/v1/items", "https://example.test/v1/items")

\* raw_get("/foo") against http://host/api/ has been sent
C5_Witness ==
  /\ last.op = "raw_get" /\ last.path = "/foo"
  /\ base_url(last.m) = "http://host/api/"
  /\ Len(wire) = 1 /\ wire[1].call.url = "http://host/foo"

\* C7, as claimed: raw_delete sends the data argument it was given,
\* whatever its value, and an empty mapping when none was given (None,
\* the parameter's default, counting as none given).
C7_DeleteSendsGivenData ==
  last.op = "raw_delete" =>
    /\ Len(wire) >= 1
    /\ wire[1].call.data = IF last.arg \in {Omitted, "None"} THEN "{}" ELSE last.arg

\* C6: the session exists and is open while the manager lives, is closed
\* exactly once by destruction if it was created, is never closed
\* otherwise; no request goes out on a closed session; __del__ raises
\* nothing, also when the session was never created.
C6_SessionReleasedExactlyOnce ==
  /\ \A m \in Managers :
       /\ mgr[m].state = "unborn" =>
            (~mgr[m].has_s /\ mgr[m].session = "none" /\ mgr[m].closes = 0)
       /\ mgr[m].state = "alive" =>
            (mgr[m].has_s /\ mgr[m].session = "open" /\ mgr[m].closes = 0)
       /\ mgr[m].state = "failed" =>
            /\ mgr[m].closes = 0
            /\ mgr[m].session = IF mgr[m].has_s THEN "open" ELSE "none"
       /\ mgr[m].state = "destroyed" =>
            IF mgr[m].has_s
            THEN mgr[m].session = "closed" /\ mgr[m].closes = 1
            ELSE mgr[m].session = "none" /\ mgr[m].closes = 0
  /\ \A i \in 1..Len(wire) : wire[i].session = "open"
  /\ last.op = "__del__" => last.exc = ""

\* one manager whose session was never created and one whose session was
\* created have both been destroyed
C6_Witness ==
  /\ mgr["m1"].state = "destroyed" /\ ~mgr["m1"].has_s
  /\ mgr["m2"].state = "destroyed" /\ mgr["m2"].has_s /\ mgr["m2"].closes = 1
  /\ last.op = "__del__"

====
